---- MODULE Spec2Model ----
(***************************************************************************)
(* watchdrain: one call of dir.watchDrain and the goroutines it starts     *)
(* (drainer, timer, threshold), together with the watched directory and    *)
(* the fsnotify watcher that feeds the drainer.                            *)
(*                                                                         *)
(* Channels are unbuffered: a send is a rendezvous with the receive.  A    *)
(* goroutine that sends (or is blocked sending) on a closed channel        *)
(* panics, and a panic in any goroutine ends the whole process.            *)
(***************************************************************************)
EXTENDS Integers, Sequences, FiniteSets, TLC

\* ---------------------------------------------------------------- bounds
MaxFiles == 1       \* files in the directory when newDir scans it
MaxOps == 3         \* file-system operations / source errors during one run
MaxTimer == 1       \* largest opt.timer, in clock ticks (0 = no timer)
MaxThreshold == 1   \* largest opt.threshold (0 = no monitoring)

\* ---------------------------------------------------------------- state
VARIABLES
    dirFiles,     \* non-directory entries really in the watched directory
    subdirs,      \* subdirectories really in the watched directory
    files,        \* *d.files, the drainer's count (uint32)
    scan,         \* the count newDir read (history)
    opt,          \* options: [timer, threshold, verbose]
    watcher,      \* "new" | "watching" | "closed"
    ops,          \* file-system operations and source errors so far
    arb,          \* position of watchDrain (the arbiter)
    pc,           \* position of each goroutine
    cur,          \* the notification the drainer is processing
    creates,      \* threshold's local counter
    removes,      \* threshold's local counter
    elapsed,      \* clock ticks since the timer goroutine started its countdown
    cancelled,    \* draining.Done() is closed
    resultClosed, \* resultCh is closed
    eventChClosed,\* opt.eventCh is closed
    panicked,     \* a goroutine panicked: the process is gone
    res,          \* the value watchDrain received from resultCh
    ret,          \* the pair watchDrain returned
    logged,       \* lines written by log.Printf
    errReady,     \* the source has reported an error the drainer has not taken
    hist          \* history: what happened so far (not program state)

vars == <<dirFiles, subdirs, files, scan, opt, watcher, ops, arb, pc, cur, creates,
          removes, elapsed, cancelled, resultClosed, eventChClosed, panicked, res, ret,
          logged, errReady, hist>>

Tasks == {"drainer", "timer", "threshold"}

NoEvent == [op |-> {}, isDir |-> FALSE]

NoResult == [drained |-> FALSE, err |-> "none"]
ErrThresholdExceeded == "threshold exceeded"
ErrTimerEnded == "timer ended"
ErrWatch == "watch error"

\* uint32 arithmetic on *d.files.  UintWrap stands for 2^32 - 1, the value a
\* decrement of 0 wraps to (the checker's integers are 32-bit signed).
UintWrap == -1
Uint32Dec(f) == IF f = 0 THEN UintWrap ELSE f - 1
Uint32Inc(f) == IF f = UintWrap THEN 0 ELSE f + 1

\* ---------------------------------------------------------------- helpers
isEmpty(f) == f = 0

\* what d.ReadDir(-1) lists for a directory of nFiles files and nDirs
\* subdirectories: one entry each, with its IsDir()
Listing(nFiles, nDirs) ==
    [i \in 1..(nFiles + nDirs) |-> [isDir |-> i > nFiles]]

\* the loop of readDirFiles: f++ for every entry that is not a directory
CountEntries(entries) == Len(entries)
RECURSIVE CountFiles(_)
CountFiles(entries) ==
    IF entries = <<>> THEN 0
    ELSE (IF ~Head(entries).isDir THEN 1 ELSE 0) + CountFiles(Tail(entries))

\* readDirFiles: counts the entries that are not directories
readDirFiles(nFiles, nDirs) == CountFiles(Listing(nFiles, nDirs))

\* newDir: the handle with the count, or no handle when readDirFiles fails
\* (os.Open or d.ReadDir returns an error)
newDir(readable, nFiles, nDirs) ==
    IF readable THEN [ok |-> TRUE, files |-> readDirFiles(nFiles, nDirs)]
    ELSE [ok |-> FALSE, files |-> 0]

\* newOptions
newOptions(t, th, v) == [timer |-> t, threshold |-> th, verbose |-> v]

\* event.Op is a bit set; the drainer reads the Remove and the Create bit
HasRemove(e) == "Remove" \in e.op
HasCreate(e) == "Create" \in e.op

\* the for condition of drainer: where the drainer goes when it (re)evaluates it
LoopPcAlways(f) == "select"
LoopPcOneLeft(f) == IF f > 1 THEN "select" ELSE "sendDrained"
LoopPc(f) == IF ~isEmpty(f) THEN "select" ELSE "sendDrained"

\* the condition threshold tests after every event
ExceedsOrEqual(c, r, th) == c - r >= th
Exceeds(c, r, th) == c - r > th

\* timer.Done() of context.WithTimeout(ctx, opt.timer) is closed
TimerDoneEarly(el, d) == el + 1 >= d
TimerDone(el, d) == el >= d

\* which goroutines watchDrain starts
StartsTimerAlways(o) == o.timer >= 0
StartsTimer(o) == o.timer > 0
StartsThreshold(o) == o.threshold > 0

\* the drainer forwards to opt.eventCh, and closes it when it returns
ForwardsAlways(o) == o.threshold >= 0
Forwards(o) == o.threshold > 0

\* log.Printf lines of one processed bit
LogLines(o) == IF o.verbose THEN 1 ELSE 0

\* the pair watchDrain returns for the result it received
Returned(r) == IF r.err # "none" THEN <<FALSE, r.err>> ELSE <<r.drained, "nil">>

Sending == {"sendDrained", "sendErr", "send"}

\* the value a goroutine blocked in a send on resultCh is sending
SendValue(t, p) ==
    CASE t = "drainer" /\ p = "sendDrained" -> [drained |-> TRUE, err |-> "none"]
      [] t = "drainer" /\ p = "sendErr" -> [drained |-> FALSE, err |-> ErrWatch]
      [] t = "timer" -> [drained |-> FALSE, err |-> ErrTimerEnded]
      [] t = "threshold" -> [drained |-> FALSE, err |-> ErrThresholdExceeded]

\* where a goroutine waits for draining.Done() after its send was received
AfterSendReturns(t, p) == "done"
AfterSend(t, p) == IF t = "drainer" /\ p = "sendErr" THEN "waitDoneErr" ELSE "waitDone"

Alive == ~panicked /\ arb \notin {"fatal", "noDir"}

Init ==
    /\ dirFiles \in 0..MaxFiles
    /\ subdirs = 1
    /\ \E readable \in BOOLEAN :
         LET d == newDir(readable, dirFiles, subdirs)
         IN  /\ files = d.files
             /\ arb = IF d.ok THEN "setup" ELSE "noDir"
    /\ scan = files
    /\ opt \in {newOptions(t, th, v) : t \in 0..MaxTimer, th \in 0..MaxThreshold,
                                       v \in BOOLEAN}
    /\ watcher = "new"
    /\ ops = 0
    /\ pc = [t \in Tasks |-> "idle"]
    /\ cur = NoEvent
    /\ creates = 0
    /\ removes = 0
    /\ elapsed = 0
    /\ cancelled = FALSE
    /\ resultClosed = FALSE
    /\ eventChClosed = FALSE
    /\ panicked = FALSE
    /\ res = NoResult
    /\ ret = <<>>
    /\ logged = 0
    /\ errReady = FALSE
    /\ hist = [recv |-> 0, late |-> FALSE, consumed |-> FALSE, forwarded |-> FALSE, net |-> 0,
               surplus |-> FALSE, errSeen |-> FALSE]

\* ------------------------------------------------ the directory and fsnotify
\* The notifications the source can deliver next, given what is in the
\* directory: a file created, removed, removed and created again (one
\* notification with both bits), written; a subdirectory created, removed.
Deliverable(nf, nd) ==
    {[op |-> {"Create"}, isDir |-> FALSE], [op |-> {"Create"}, isDir |-> TRUE]}
    \cup (IF nf > 0 THEN {[op |-> {"Remove"}, isDir |-> FALSE],
                          [op |-> {"Remove", "Create"}, isDir |-> FALSE],
                          [op |-> {"Write"}, isDir |-> FALSE]}
                    ELSE {})
    \cup (IF nd > 0 THEN {[op |-> {"Remove"}, isDir |-> TRUE]} ELSE {})

\* creates minus removes that a notification reports
Net(e) == (IF HasCreate(e) THEN 1 ELSE 0) - (IF HasRemove(e) THEN 1 ELSE 0)

\* the directory after the operation that a notification reports
FilesAfter(e, nf) == IF e.isDir THEN nf ELSE nf + Net(e)
SubdirsAfter(e, nd) == IF e.isDir THEN nd + Net(e) ELSE nd

\* history of the notifications the drainer received: creates - removes, and
\* whether creates ever were in excess
Received(e) ==
    [hist EXCEPT !.consumed = TRUE,
                 !.net = @ + Net(e),
                 !.surplus = @ \/ (hist.net + Net(e) > 0)]

\* between newDir and watcher.Add a file is created: no notification
PreCreate ==
    /\ Alive /\ watcher = "new" /\ ops < MaxOps
    /\ dirFiles' = dirFiles + 1
    /\ ops' = ops + 1
    /\ UNCHANGED <<subdirs, files, scan, opt, watcher, arb, pc, cur, creates, removes,
                   elapsed, cancelled, resultClosed, eventChClosed, panicked, res, ret,
                   logged, errReady, hist>>

\* between newDir and watcher.Add a file is removed: no notification
PreRemove ==
    /\ Alive /\ watcher = "new" /\ ops < MaxOps
    /\ dirFiles > 0
    /\ dirFiles' = dirFiles - 1
    /\ ops' = ops + 1
    /\ UNCHANGED <<subdirs, files, scan, opt, watcher, arb, pc, cur, creates, removes,
                   elapsed, cancelled, resultClosed, eventChClosed, panicked, res, ret,
                   logged, errReady, hist>>

\* the source reports an error: it waits on watcher.Errors for the drainer
SourceError ==
    /\ Alive /\ watcher = "watching" /\ ops < MaxOps
    /\ ~errReady
    /\ errReady' = TRUE
    /\ ops' = ops + 1
    /\ UNCHANGED <<dirFiles, subdirs, files, scan, opt, watcher, arb, pc, cur, creates,
                   removes, elapsed, cancelled, resultClosed, eventChClosed, panicked,
                   res, ret, logged, hist>>

\* ------------------------------------------------------------- watchDrain
ArbFrame == UNCHANGED <<dirFiles, subdirs, files, scan, opt, ops, cur, creates, removes,
                        elapsed, eventChClosed, panicked, logged>>

\* fsnotify.NewWatcher and watcher.Add succeed
Setup ==
    /\ Alive /\ arb = "setup"
    /\ watcher' = "watching"
    /\ arb' = "goDrainer"
    /\ UNCHANGED <<pc, cancelled, resultClosed, res, ret, hist>>
    /\ ArbFrame /\ UNCHANGED errReady

\* fsnotify.NewWatcher or watcher.Add fails: log.Fatalln ends the process
SetupFail ==
    /\ Alive /\ arb = "setup"
    /\ arb' = "fatal"
    /\ UNCHANGED <<watcher, pc, cancelled, resultClosed, res, ret, hist>>
    /\ ArbFrame /\ UNCHANGED errReady

\* go drainer(...); the drainer begins with the loop condition !d.isEmpty()
GoDrainer ==
    /\ Alive /\ arb = "goDrainer"
    /\ pc' = [pc EXCEPT !["drainer"] = LoopPc(files)]
    /\ arb' = "goTimer"
    /\ UNCHANGED <<watcher, cancelled, resultClosed, res, ret, hist>>
    /\ ArbFrame /\ UNCHANGED errReady

\* if opt.timer > 0 { go timer(...) }; the timer begins with
\* context.WithTimeout(ctx, opt.timer), which starts the countdown
GoTimer ==
    /\ Alive /\ arb = "goTimer"
    /\ pc' = IF StartsTimer(opt) THEN [pc EXCEPT !["timer"] = "select"] ELSE pc
    /\ arb' = "goThreshold"
    /\ UNCHANGED <<watcher, cancelled, resultClosed, res, ret, hist>>
    /\ ArbFrame /\ UNCHANGED errReady

\* if opt.threshold > 0 { go threshold(...) }
GoThreshold ==
    /\ Alive /\ arb = "goThreshold"
    /\ pc' = IF StartsThreshold(opt) THEN [pc EXCEPT !["threshold"] = "recv"] ELSE pc
    /\ arb' = "recv"
    /\ UNCHANGED <<watcher, cancelled, resultClosed, res, ret, hist>>
    /\ ArbFrame /\ UNCHANGED errReady

\* where watchDrain goes once res := <-resultCh has a value: the return
\* statement, and with it the deferred function
AfterRecvAgain == "recv"
AfterRecvNoDefer == "return"
AfterRecvNoCancel == "closeResult"
AfterRecv == "cancel"

\* res := <-resultCh, the rendezvous with the send of goroutine t
Recv(t) ==
    /\ Alive /\ arb = "recv" /\ ~resultClosed
    /\ pc[t] \in Sending
    /\ res' = SendValue(t, pc[t])
    /\ pc' = [pc EXCEPT ![t] = AfterSend(t, pc[t])]
    /\ arb' = AfterRecv
    /\ hist' = [hist EXCEPT !.recv = @ + 1,
                             !.late = opt.timer > 0 /\ elapsed >= opt.timer]
    /\ UNCHANGED <<watcher, cancelled, resultClosed, ret>>
    /\ ArbFrame /\ UNCHANGED errReady

\* the deferred function: cancel()
Cancel ==
    /\ Alive /\ arb = "cancel"
    /\ cancelled' = TRUE
    /\ arb' = "closeResult"
    /\ UNCHANGED <<watcher, pc, resultClosed, res, ret, hist>>
    /\ ArbFrame /\ UNCHANGED errReady

\* the deferred function: close(resultCh)
CloseResult ==
    /\ Alive /\ arb = "closeResult"
    /\ resultClosed' = TRUE
    /\ arb' = "closeWatcher"
    /\ UNCHANGED <<watcher, pc, cancelled, res, ret, hist>>
    /\ ArbFrame /\ UNCHANGED errReady

\* where watchDrain goes after watcher.Close()
AfterClose == "return"

\* the deferred function: watcher.Close(); the source closes Events and
\* Errors and delivers nothing more
CloseWatcher ==
    /\ Alive /\ arb = "closeWatcher"
    /\ watcher' = "closed"
    /\ arb' = AfterClose
    /\ UNCHANGED <<pc, cancelled, resultClosed, res, ret, hist>>
    /\ ArbFrame /\ UNCHANGED errReady

\* watchDrain returns to its caller
Return ==
    /\ Alive /\ arb = "return"
    /\ ret' = Returned(res)
    /\ arb' = "returned"
    /\ UNCHANGED <<watcher, pc, cancelled, resultClosed, res, hist>>
    /\ ArbFrame /\ UNCHANGED errReady

\* a goroutine sending on resultCh when it is closed panics
PanicSend(t) ==
    /\ Alive /\ resultClosed
    /\ pc[t] \in Sending
    /\ panicked' = TRUE
    /\ UNCHANGED <<dirFiles, subdirs, files, scan, opt, watcher, ops, arb, pc, cur,
                   creates, removes, elapsed, cancelled, resultClosed, eventChClosed,
                   res, ret, logged, errReady, hist>>

\* ---------------------------------------------------------------- drainer
TaskFrame == UNCHANGED <<scan, opt, arb, cancelled, resultClosed, panicked, res, ret>>

\* case event, ok := <-watcher.Events with ok, for the notification e the
\* source delivers: the bits are applied up to the first send on opt.eventCh;
\* without monitoring the whole notification is applied and the loop
\* condition evaluated again
DrainerEvent ==
    /\ Alive /\ pc["drainer"] = "select"
    /\ watcher = "watching" /\ ops < MaxOps
    /\ \E e \in Deliverable(dirFiles, subdirs) :
        LET f1 == IF HasRemove(e) THEN Uint32Dec(files) ELSE files
            f2 == IF HasCreate(e) THEN Uint32Inc(f1) ELSE f1
            n1 == IF HasRemove(e) THEN LogLines(opt) ELSE 0
            n2 == IF HasCreate(e) THEN LogLines(opt) ELSE 0
        IN  /\ dirFiles' = FilesAfter(e, dirFiles)
            /\ subdirs' = SubdirsAfter(e, subdirs)
            /\ IF HasRemove(e) /\ Forwards(opt)
               THEN /\ files' = f1
                    /\ logged' = logged + n1
                    /\ cur' = e
                    /\ pc' = [pc EXCEPT !["drainer"] = "fwdRemove"]
                    /\ hist' = [Received(e) EXCEPT !.forwarded = TRUE]
               ELSE IF HasCreate(e) /\ Forwards(opt)
               THEN /\ files' = f2
                    /\ logged' = logged + n2
                    /\ cur' = e
                    /\ pc' = [pc EXCEPT !["drainer"] = "fwdCreate"]
                    /\ hist' = [Received(e) EXCEPT !.forwarded = TRUE]
               ELSE /\ files' = f2
                    /\ logged' = logged + n1 + n2
                    /\ cur' = NoEvent
                    /\ pc' = [pc EXCEPT !["drainer"] = LoopPc(f2)]
                    /\ hist' = Received(e)
    /\ ops' = ops + 1
    /\ UNCHANGED <<watcher, creates, removes, elapsed, eventChClosed>>
    /\ TaskFrame /\ UNCHANGED errReady

\* opt.eventCh <- Remove / opt.eventCh <- Create received by threshold's
\* <-opt.eventCh; threshold counts it and tests the threshold; the drainer goes on
\* with the Create bit of the same notification or back to the loop condition
Forward ==
    /\ Alive /\ pc["drainer"] \in {"fwdRemove", "fwdCreate"}
    /\ pc["threshold"] = "recv" /\ ~eventChClosed
    /\ LET isRm == pc["drainer"] = "fwdRemove"
           c == IF isRm THEN creates ELSE creates + 1
           r == IF isRm THEN removes + 1 ELSE removes
           more == isRm /\ HasCreate(cur)
           f == IF more THEN Uint32Inc(files) ELSE files
       IN  /\ creates' = c
           /\ removes' = r
           /\ files' = f
           /\ logged' = IF more THEN logged + LogLines(opt) ELSE logged
           /\ cur' = IF more THEN cur ELSE NoEvent
           /\ pc' = [pc EXCEPT !["drainer"] = IF more THEN "fwdCreate" ELSE LoopPc(f),
                               !["threshold"] = IF Exceeds(c, r, opt.threshold)
                                                THEN "send" ELSE "recv"]
    /\ UNCHANGED <<dirFiles, subdirs, watcher, ops, elapsed, eventChClosed, hist>>
    /\ TaskFrame /\ UNCHANGED errReady

\* case err, ok := <-watcher.Errors with ok, for an error the source reports
DrainerError ==
    /\ Alive /\ pc["drainer"] = "select"
    /\ watcher = "watching" /\ errReady
    /\ errReady' = FALSE
    /\ pc' = [pc EXCEPT !["drainer"] = "sendErr"]
    /\ hist' = [hist EXCEPT !.consumed = TRUE, !.errSeen = TRUE]
    /\ UNCHANGED <<dirFiles, subdirs, files, watcher, ops, cur, creates, removes, elapsed,
                   eventChClosed, logged>>
    /\ TaskFrame

\* the error case after <-draining.Done(): the select ends and the loop
\* condition is evaluated again
DrainerAfterErr ==
    /\ Alive /\ pc["drainer"] = "waitDoneErr" /\ cancelled
    /\ pc' = [pc EXCEPT !["drainer"] = LoopPc(files)]
    /\ UNCHANGED <<dirFiles, subdirs, files, watcher, ops, cur, creates, removes,
                   elapsed, eventChClosed, logged, hist>>
    /\ TaskFrame /\ UNCHANGED errReady

\* case event, ok := <-watcher.Events with !ok: return, and the deferred
\* close(opt.eventCh).  (The Errors case of a closed watcher has ok false and
\* changes nothing: it is a stuttering step.)
DrainerEventsClosed ==
    /\ Alive /\ pc["drainer"] = "select"
    /\ watcher = "closed"
    /\ pc' = [pc EXCEPT !["drainer"] = "done"]
    /\ eventChClosed' = (eventChClosed \/ Forwards(opt))
    /\ UNCHANGED <<dirFiles, subdirs, files, watcher, ops, cur, creates, removes,
                   elapsed, logged, hist>>
    /\ TaskFrame /\ UNCHANGED errReady

\* <-draining.Done() after resultCh <- result{drained: true}: the drainer
\* returns, and the deferred close(opt.eventCh)
DrainerDone ==
    /\ Alive /\ pc["drainer"] = "waitDone" /\ cancelled
    /\ pc' = [pc EXCEPT !["drainer"] = "done"]
    /\ eventChClosed' = (eventChClosed \/ Forwards(opt))
    /\ UNCHANGED <<dirFiles, subdirs, files, watcher, ops, cur, creates, removes,
                   elapsed, logged, hist>>
    /\ TaskFrame /\ UNCHANGED errReady

\* ------------------------------------------------------------------ timer
TimerFrame == UNCHANGED <<dirFiles, subdirs, files, watcher, ops, cur, creates, removes,
                          eventChClosed, logged, hist>>

\* time passes while the countdown runs
Tick ==
    /\ Alive /\ pc["timer"] = "select"
    /\ elapsed < opt.timer
    /\ elapsed' = elapsed + 1
    /\ UNCHANGED pc
    /\ TimerFrame /\ TaskFrame /\ UNCHANGED errReady

\* case <-timer.Done(): the timer goes to resultCh <- result{err: ErrTimerEnded}
TimerFire ==
    /\ Alive /\ pc["timer"] = "select"
    /\ TimerDone(elapsed, opt.timer)
    /\ pc' = [pc EXCEPT !["timer"] = "send"]
    /\ UNCHANGED elapsed
    /\ TimerFrame /\ TaskFrame /\ UNCHANGED errReady

\* case <-draining.Done(): return
TimerCancelled ==
    /\ Alive /\ pc["timer"] = "select" /\ cancelled
    /\ pc' = [pc EXCEPT !["timer"] = "done"]
    /\ UNCHANGED elapsed
    /\ TimerFrame /\ TaskFrame /\ UNCHANGED errReady

\* <-draining.Done() after the send
TimerReturn ==
    /\ Alive /\ pc["timer"] = "waitDone" /\ cancelled
    /\ pc' = [pc EXCEPT !["timer"] = "done"]
    /\ UNCHANGED elapsed
    /\ TimerFrame /\ TaskFrame /\ UNCHANGED errReady

\* -------------------------------------------------------------- threshold
\* where threshold goes when <-opt.eventCh reports the channel closed
OnClosedPublish == "send"
OnClosed == "done"

\* event, ok := <-opt.eventCh with !ok: return
ThresholdClosed ==
    /\ Alive /\ pc["threshold"] = "recv" /\ eventChClosed
    /\ pc' = [pc EXCEPT !["threshold"] = OnClosed]
    /\ UNCHANGED elapsed
    /\ TimerFrame /\ TaskFrame /\ UNCHANGED errReady

\* <-draining.Done() after the send, then return
ThresholdReturn ==
    /\ Alive /\ pc["threshold"] = "waitDone" /\ cancelled
    /\ pc' = [pc EXCEPT !["threshold"] = "done"]
    /\ UNCHANGED elapsed
    /\ TimerFrame /\ TaskFrame /\ UNCHANGED errReady

\* ------------------------------------------------------- specifications
Env == PreCreate \/ PreRemove \/ SourceError

\* the steps watchDrain takes by itself
ArbiterSteps == Setup \/ GoDrainer \/ GoTimer \/ GoThreshold
                \/ (\E t \in Tasks : Recv(t))
                \/ Cancel \/ CloseResult \/ CloseWatcher \/ Return

Arbiter == ArbiterSteps \/ SetupFail

\* the steps the drainer takes without a notification of the source
DrainerSteps == Forward \/ DrainerError \/ DrainerAfterErr \/ DrainerEventsClosed
                \/ DrainerDone

Drainer == DrainerEvent \/ DrainerSteps

Timer == TimerFire \/ TimerCancelled \/ TimerReturn

Threshold == ThresholdClosed \/ ThresholdReturn

Panic == \E t \in Tasks : PanicSend(t)

Next == Env \/ Arbiter \/ Drainer \/ Timer \/ Tick \/ Threshold \/ Panic

Spec == Init /\ [][Next]_vars

\* the steps of the program: of watchDrain and of its goroutines
Program == ArbiterSteps \/ DrainerSteps \/ Timer \/ Threshold \/ Panic

\* the Go runtime does not stop while a goroutine can take a step; the file
\* system, the notification source and the clock are not obliged to do
\* anything.  (No behaviour of this model repeats a state, every one ends in
\* a state it stays in: there this condition leaves no goroutine with a step
\* it can take, as fairness of each goroutine would.)
Fairness == WF_vars(Program)

FairSpec == Spec /\ Fairness

\* the same, and time passes: a running countdown eventually elapses
TimedSpec == Spec /\ WF_vars(Program \/ Tick)

\* ------------------------------------------------------------- properties
Stopped(t) == pc[t] \in {"idle", "done"}

\* watchDrain is past res := <-resultCh
PastRecv == arb \in {"cancel", "closeResult", "closeWatcher", "return", "returned"}

Outcomes == {<<TRUE, "nil">>, <<FALSE, ErrTimerEnded>>, <<FALSE, ErrThresholdExceeded>>,
             <<FALSE, ErrWatch>>}

\* the drainer found the count at zero when it evaluated its loop condition
CountZero == files = 0 /\ pc["drainer"] \in {"sendDrained", "waitDone", "done"}

\* the countdown of a configured deadline has elapsed
TimerElapsed == opt.timer > 0 /\ pc["timer"] # "idle" /\ elapsed >= opt.timer

\* C1: watchDrain receives exactly one value from resultCh (none before the
\* receive, one from then on, never a second) and what it returns is one of
\* the four outcomes, the one of the value received.
C1_ExactlyOneOutcome ==
    /\ hist.recv = (IF PastRecv THEN 1 ELSE 0)
    /\ (PastRecv => res # NoResult)
    /\ (arb = "returned" =>
          /\ ret \in Outcomes
          /\ ret[1] = (res.drained /\ res.err = "none")
          /\ (~ret[1] => ret[2] = res.err))
    /\ (arb # "returned" => ret = <<>>)

\* C1 witness: the call returned one outcome while a second producer was
\* sending its own.
C1_Witness == arb = "returned" /\ hist.recv = 1 /\ \E t \in Tasks : pc[t] \in Sending

\* C2: once watchDrain has returned, every goroutine it started eventually
\* terminates (a panic ends them all with the process).
C2_NoLeak == (arb = "returned") ~> (panicked \/ \A t \in Tasks : Stopped(t))

\* C3 as stated: in the state in which watchDrain returns, no goroutine is
\* still running or blocked.
C3_AllStoppedAtReturn == arb = "returned" => \A t \in Tasks : Stopped(t)

\* C3 amended: in the state in which watchDrain returns, cancellation has been
\* signalled, resultCh is closed and the notification source is closed.
C3_TornDownAtReturn == arb = "returned" => cancelled /\ resultClosed /\ watcher = "closed"

\* C3 witness: the call has returned and a goroutine has not yet taken the
\* cancellation.
C3_Witness == arb = "returned" /\ cancelled /\ \E t \in Tasks : pc[t] = "waitDone"

\* the countdown had elapsed when watchDrain received its outcome
DeadlineFirst == hist.late

\* the source has reported an error
SourceErrored == errReady \/ hist.errSeen

\* another producer than the one awaited came first: the deadline elapsed
\* before watchDrain received an outcome, or the outcome it received is
\* that other producer's (or, for Drained, the source has reported an error)
OtherDrained == DeadlineFirst \/ res.err # "none" \/ SourceErrored
OtherThreshold == DeadlineFirst \/ (res # NoResult /\ res.err # ErrThresholdExceeded)

\* the files of the scan have been removed and the drainer received their
\* notifications, creates never in excess, and no source error
DrainedByRemoves ==
    /\ pc["drainer"] # "idle"
    /\ scan > 0
    /\ hist.net = -scan
    /\ dirFiles = 0 /\ subdirs = 1
    /\ ~hist.surplus
    /\ ~SourceErrored

\* C4: N removes, no create excess, no source error: watchDrain eventually
\* returns (true, nil), whatever verbose and threshold are (unless the
\* deadline came first).
C4_RemovesDrain == DrainedByRemoves ~> (ret = <<TRUE, "nil">> \/ OtherDrained)

\* C5: with a count of zero at the start the drainer receives no notification
\* and no error and forwards nothing, and watchDrain returns (true, nil)
\* unless the deadline came first.
C5_EmptyAtStart ==
    /\ [](scan = 0 => ~hist.consumed /\ ~hist.forwarded /\ creates + removes = 0)
    /\ (scan = 0 /\ dirFiles = 0 /\ watcher = "watching")
         ~> (ret = <<TRUE, "nil">> \/ OtherDrained)

\* threshold has counted an excess of creates over the threshold
Excess == opt.threshold > 0 /\ creates - removes > opt.threshold

\* C6: an excess over the threshold makes watchDrain return
\* (false, ErrThresholdExceeded) (unless another producer came first).
C6_ExcessReturned == Excess ~> (ret = <<FALSE, ErrThresholdExceeded>> \/ OtherThreshold)

\* with monitoring, the count reached zero and no excess was counted
DrainedBelowThreshold ==
    /\ opt.threshold > 0
    /\ CountZero
    /\ creates - removes <= opt.threshold

\* C7: no excess and count zero: watchDrain returns (true, nil) (unless
\* another producer came first).
C7_NoExcessDrains == DrainedBelowThreshold ~> (ret = <<TRUE, "nil">> \/ OtherDrained)

\* C8: threshold publishes (and its outcome is received) only with
\* creates - removes strictly above the threshold.
C8_PublishesOnlyAbove ==
    (pc["threshold"] \in {"send", "waitDone"} \/ res.err = ErrThresholdExceeded)
        => creates - removes > opt.threshold

\* C8 witness: threshold 1, excess 2, published.
C8_Witness == opt.threshold = 1 /\ creates - removes = 2 /\ pc["threshold"] = "send"

\* C9: the timer publishes only once the countdown has elapsed; and with a
\* deadline, watchDrain returns (false, ErrTimerEnded) unless the count
\* reaches zero, an excess is counted or a source error is received.
C9_Deadline ==
    /\ [](pc["timer"] \in {"send", "waitDone"} \/ res.err = ErrTimerEnded
            => opt.timer > 0 /\ elapsed >= opt.timer)
    /\ (opt.timer > 0 /\ watcher = "watching")
         ~> (ret = <<FALSE, ErrTimerEnded>> \/ CountZero \/ Excess \/ hist.errSeen)

\* C9 witness: a seeded directory nobody drained, reported as timed out.
C9_Witness == scan >= 1 /\ files >= 1 /\ ~hist.errSeen /\ ret = <<FALSE, ErrTimerEnded>>

\* C10: without deadline and without threshold, watchDrain has returned only
\* if the count reached zero or a source error was received.
C10_BlocksUntilDrained ==
    (opt.timer = 0 /\ opt.threshold = 0 /\ arb = "returned") => (CountZero \/ hist.errSeen)

\* C10 witness: such a call on a seeded directory that returned once drained.
C10_Witness ==
    /\ opt.timer = 0 /\ opt.threshold = 0 /\ arb = "returned"
    /\ scan >= 1 /\ CountZero /\ ~hist.errSeen

\* watchDrain is past the three go statements
Started == arb \in {"recv", "cancel", "closeResult", "closeWatcher", "return", "returned"}

\* C11: the drainer runs in every watch, the timer goroutine exists iff
\* opt.timer > 0 and the threshold goroutine iff opt.threshold > 0; without a
\* timer the outcome is never ErrTimerEnded, without a threshold it is never
\* ErrThresholdExceeded and the drainer never forwards or waits on opt.eventCh.
C11_TasksByOption ==
    /\ (Started => pc["drainer"] # "idle")
    /\ (pc["timer"] # "idle" => opt.timer > 0)
    /\ (Started /\ opt.timer > 0 => pc["timer"] # "idle")
    /\ (pc["threshold"] # "idle" => opt.threshold > 0)
    /\ (Started /\ opt.threshold > 0 => pc["threshold"] # "idle")
    /\ (opt.timer = 0 => res.err # ErrTimerEnded /\ ret # <<FALSE, ErrTimerEnded>>)
    /\ (opt.threshold = 0 =>
          /\ res.err # ErrThresholdExceeded /\ ret # <<FALSE, ErrThresholdExceeded>>
          /\ pc["drainer"] \notin {"fwdRemove", "fwdCreate"}
          /\ ~hist.forwarded /\ creates + removes = 0 /\ ~eventChClosed)

\* C11 witness: a watch with neither option has processed a Create and a
\* Remove and returned, the drainer being the only goroutine.
C11_Witness ==
    /\ opt.timer = 0 /\ opt.threshold = 0 /\ arb = "returned"
    /\ hist.consumed /\ hist.surplus /\ files = 0
    /\ pc["timer"] = "idle" /\ pc["threshold"] = "idle"

\* the drainer took an error of the source while watchDrain had received no
\* outcome yet
ErrorPending == pc["drainer"] = "sendErr" /\ res = NoResult

\* C12: a source error the drainer takes while no outcome has been received
\* is surfaced: watchDrain returns (false, that error) (unless another
\* producer came first).
C12_ErrorSurfaced ==
    ErrorPending ~> (ret = <<FALSE, ErrWatch>>
                     \/ DeadlineFirst \/ (res # NoResult /\ res.err # ErrWatch))

\* C13: watchDrain returns (true, nil) only for a received Drained, the
\* drainer sends Drained only with *d.files = 0, and every other outcome is
\* returned as (false, err) with err one of the three errors.
C13_DrainedOnlyAtZero ==
    /\ (pc["drainer"] = "sendDrained" => files = 0)
    /\ (res.drained => files = 0 /\ res.err = "none")
    /\ (arb = "returned" /\ ret[1] => res.drained /\ ret[2] = "nil")
    /\ (arb = "returned" /\ ~res.drained =>
          /\ ~ret[1]
          /\ ret[2] = res.err
          /\ ret[2] \in {ErrTimerEnded, ErrThresholdExceeded, ErrWatch})

\* C13 witness: a seeded directory was drained by removals and watchDrain
\* returned (true, nil).
C13_Witness ==
    /\ scan > 0 /\ files = 0 /\ res.drained
    /\ arb = "returned" /\ ret = <<TRUE, "nil">>

\* C14: the count newDir sets is the number of entries that are not
\* directories (subdirectories count for nothing, a directory of
\* subdirectories only gives 0), and a directory that cannot be read gives
\* no handle: nothing is watched.
C14_CountsFilesOnly ==
    /\ (arb = "setup" /\ ops = 0 => files = dirFiles /\ scan = dirFiles)
    /\ \A nf \in 0..MaxFiles, nd \in 0..MaxFiles + 1 :
         /\ readDirFiles(nf, nd) = nf
         /\ newDir(TRUE, nf, nd) = [ok |-> TRUE, files |-> nf]
         /\ ~newDir(FALSE, nf, nd).ok
    /\ (arb = "noDir" =>
          /\ watcher = "new" /\ ret = <<>> /\ res = NoResult
          /\ \A t \in Tasks : pc[t] = "idle")

\* C14 witness: newDir has scanned a directory with a file and a
\* subdirectory.
C14_Witness == arb = "setup" /\ ops = 0 /\ dirFiles > 0 /\ subdirs > 0 /\ files = dirFiles

\* C15: no goroutine is in, or enters, a send on resultCh once watchDrain has
\* closed it: no send on the closed channel, so no panic.
C15_NoSendOnClosed ==
    /\ ~panicked
    /\ (resultClosed => \A t \in Tasks : pc[t] \notin Sending)

\* C16: the drainer is never waiting in a send on opt.eventCh while threshold
\* has stopped receiving (it is publishing or has published
\* ErrThresholdExceeded, or has returned).
C16_ForwardNeverStuck ==
    ~(/\ pc["drainer"] \in {"fwdRemove", "fwdCreate"}
      /\ pc["threshold"] \in {"send", "waitDone", "done"})

\* C17: a step in which the drainer takes the notification of a subdirectory
\* created or removed leaves *d.files unchanged and forwards nothing.
C17_DirectoriesIgnored ==
    [][subdirs' # subdirs =>
          /\ files' = files
          /\ pc'["drainer"] \notin {"fwdRemove", "fwdCreate"}]_vars

C19_ErrorFirst ==
    [][(/\ errReady /\ watcher = "watching" /\ pc["drainer"] = "select"
        /\ (ops' # ops \/ pc'["drainer"] # "select"))
          => pc'["drainer"] = "sendErr"]_vars

\* C20: once cancellation is signalled, a timer goroutine that has not gone
\* to its send never does: from its select it only returns, also when the
\* countdown has elapsed too.
C20_CancelledTimerSilent ==
    [][cancelled /\ pc["timer"] = "select" => pc'["timer"] \in {"select", "done"}]_vars

\* the goroutines waiting in <-draining.Done() after their send was received
Delivered == {t \in Tasks : pc[t] \in {"waitDone", "waitDoneErr"}}

\* C21: while cancellation has not been signalled no goroutine has returned
\* and opt.eventCh is not closed, and the producer whose outcome watchDrain
\* received is still waiting in <-draining.Done().
C21_BlocksUntilCancel ==
    ~cancelled =>
        /\ \A t \in Tasks : pc[t] # "done"
        /\ ~eventChClosed
        /\ (res = NoResult => Delivered = {})
        /\ (res # NoResult =>
              \E t \in Tasks :
                  /\ Delivered = {t}
                  /\ res.err = (CASE t = "timer" -> ErrTimerEnded
                                  [] t = "threshold" -> ErrThresholdExceeded
                                  [] pc[t] = "waitDoneErr" -> ErrWatch
                                  [] OTHER -> "none"))

\* C21 witness: with monitoring on, the drainer's Drained was received and
\* cancel() has not run: the drainer waits and opt.eventCh is open.
C21_Witness ==
    /\ Forwards(opt) /\ res.drained /\ ~cancelled
    /\ pc["drainer"] = "waitDone" /\ ~eventChClosed

\* C22: draining is cancelled only by watchDrain's deferred cancel(), after
\* res := <-resultCh has a value; resultCh is closed only after that, by
\* watchDrain, and the watcher only after resultCh; before watchDrain has
\* received an outcome nothing is cancelled or closed.
C22_TeardownInOrder ==
    /\ [](/\ (cancelled => PastRecv /\ hist.recv = 1 /\ res # NoResult)
          /\ (resultClosed => cancelled)
          /\ (watcher = "closed" => resultClosed)
          /\ (~PastRecv => ~cancelled /\ ~resultClosed /\ watcher # "closed"))
    /\ [][/\ (cancelled' # cancelled =>
                 arb = "cancel" /\ arb' = "closeResult" /\ cancelled' /\ pc' = pc)
          /\ (resultClosed' # resultClosed =>
                 arb = "closeResult" /\ arb' = "closeWatcher" /\ resultClosed' /\ pc' = pc)
          /\ (watcher = "watching" /\ watcher' # watcher =>
                 arb = "closeWatcher" /\ watcher' = "closed" /\ pc' = pc)
          /\ (cancelled => cancelled') /\ (resultClosed => resultClosed')]_vars

\* C22 witness: watchDrain has returned an outcome with all three steps of
\* the deferred function done.
C22_Witness ==
    /\ arb = "returned" /\ res # NoResult /\ ret = Returned(res)
    /\ cancelled /\ resultClosed /\ watcher = "closed"

\* C23: with monitoring on, the drainer has returned exactly when
\* opt.eventCh is closed; the channel is closed in the step in which the
\* drainer returns and in no other, nothing is forwarded on it afterwards,
\* and a threshold that finds it closed returns without a send on resultCh.
C23_EventChClosedOnExit ==
    /\ [](/\ (Forwards(opt) => (pc["drainer"] = "done" <=> eventChClosed))
          /\ (eventChClosed => /\ Forwards(opt)
                                /\ pc["drainer"] \notin {"fwdRemove", "fwdCreate"}))
    /\ [][/\ (eventChClosed' # eventChClosed =>
                 /\ ~eventChClosed
                 /\ pc["drainer"] # "done" /\ pc'["drainer"] = "done")
          /\ (eventChClosed =>
                 /\ eventChClosed'
                 /\ creates' = creates /\ removes' = removes
                 /\ pc'["drainer"] = "done")
          /\ (eventChClosed /\ pc["threshold"] = "recv" =>
                 pc'["threshold"] \in {"recv", "done"})]_vars

\* C23 witness: the drainer forwarded, returned and closed opt.eventCh, and
\* threshold, never above its threshold, returned without an outcome of its
\* own.
C23_Witness ==
    /\ Forwards(opt) /\ hist.forwarded /\ eventChClosed
    /\ pc["drainer"] = "done" /\ pc["threshold"] = "done"
    /\ ~Exceeds(creates, removes, opt.threshold)
    /\ res.err # ErrThresholdExceeded

\* creates minus removes the drainer has applied to *d.files: those of the
\* notifications it received, less the Create bit of a notification whose
\* Remove bit it is still forwarding
Applied ==
    hist.net - (IF pc["drainer"] = "fwdRemove" /\ HasCreate(cur) THEN 1 ELSE 0)

\* C24: *d.files is the scanned count plus the creates minus the removes the
\* drainer applied, it is never negative and never the wrapped value, the
\* drainer takes a notification only with a count of at least 1, and every
\* step that lowers the count lowers it by one from at least 1.
C24_CountNeverUnderflows ==
    /\ [](/\ files = scan + Applied
          /\ files >= 0 /\ files # UintWrap
          /\ (pc["drainer"] \in {"select", "fwdRemove", "sendErr", "waitDoneErr"}
                => files + (IF pc["drainer"] = "fwdRemove" THEN 1 ELSE 0) >= 1))
    /\ [][files' < files => files >= 1 /\ files' = files - 1]_vars

\* C24 witness: the only file was removed after the drainer's source error
\* had been received as the outcome; the count went from 1 to 0.
C24_Witness ==
    /\ res.err = ErrWatch /\ hist.errSeen
    /\ scan = 1 /\ hist.net = -1 /\ files = 0
    /\ pc["drainer"] = "sendDrained"

\* C25: while the watch is registered and the drainer is not in the middle of
\* a notification, *d.files is the number of files really in the directory,
\* whatever happened between newDir and watcher.Add; and Drained is published
\* only with no file in the directory.
C25_CountIsActual ==
    /\ (watcher = "watching" /\ pc["drainer"] \notin {"idle", "fwdRemove", "fwdCreate"}
          => files = dirFiles)
    /\ (pc["drainer"] = "sendDrained" \/ res.drained => dirFiles = 0)
====
